---- MODULE Spec2Model ----
(***************************************************************************)
(* Skillcy: the statistics-consistency subsystem.                          *)
(*                                                                         *)
(* The tables profiles, courses and user_courses, their row-level security *)
(* policies, the trigger functions that recompute the three counters of a  *)
(* profile, and the client handlers that issue the row mutations.          *)
(*                                                                         *)
(* Every client request is one autocommit transaction holding one          *)
(* statement.  A statement that changes a row fires the AFTER ... FOR EACH *)
(* ROW trigger, whose UPDATE on profiles reads the row counts with the     *)
(* snapshot taken when that UPDATE starts (READ COMMITTED, the isolation   *)
(* level no statement of the repository changes) and writes the profile    *)
(* row once it holds the row's lock, that is after every transaction that  *)
(* wrote the row before has ended.  A transaction is therefore two steps:  *)
(* the statement with the trigger's read, and the write with the commit.   *)
(***************************************************************************)
EXTENDS Integers, FiniteSets, Sequences, TLC

\* ------------------------------------------------------------- bounds
\* Concurrent client sessions (browser tabs), each with one request in flight.
NumSessions == 2
\* courses rows ever inserted.
MaxCourses == 2
\* user_courses rows ever inserted.
MaxEnrollments == 2
\* Handlers that start while another session's handler is in progress.
MaxRaces == 1

Users == {"u1", "u2"}
Sessions == 1 .. NumSessions
Titles == {"t1", "t2"}

\* ------------------------------------------------------------- rows
NULL == "null"
\* new Date().toISOString(): some non-null timestamp.
Timestamp == "ts"
NoUser == "nobody"
NoProfile == [user_id |-> NoUser]
NoRow == [id |-> 0]
NoStats == [none |-> TRUE]
\* auth.uid() of a request without a session: null, the user_id of no row.
Anon == NULL
Actors == Users \cup {Anon}
\* No request has been sent to the REST endpoint.  op, actor: the request
\* and its auth.uid().  row: the courses row a select addresses.  visible:
\* the select returned it.  hit: the row a statement addresses is the
\* actor's ("own"), another user's ("other") or does not exist ("none").
\* outcome: "ok" with the rows changed, "denied" when no row passed the
\* policy, "error" when the statement was rejected.  rows: the rows a select
\* returned.  calls: the arguments of the calls of update_profile_stats the
\* statement's row triggers made, in order.
NoProbe ==
    [op |-> "none", actor |-> Anon, row |-> NoRow, visible |-> FALSE,
     hit |-> "none", outcome |-> "none", rows |-> {}, calls |-> <<>>]

\* A browser tab that shows no page.  page: "library" or "learn".  user: the
\* signed-in user.  rows: the enrollments the page read, as it keeps them.
NoSeen == [page |-> "none", user |-> Anon, rows |-> {}]

\* The state of a course form as useState initialises it: every text field
\* of formData empty.  title stands for the fields both forms always
\* require.
NoFormData ==
    [title |-> "", content_type |-> "", content_url |-> "", content_text |-> ""]

\* No course form is open.  form: "upload" or "edit".  user: the signed-in
\* user.  course: the id of the course EditCourseModal was opened for.
\* heads: the URLs of the HEAD requests that have not been answered.
NoModal ==
    [form |-> "none", user |-> Anon, course |-> 0, formData |-> NoFormData,
     contentUrlValid |-> TRUE, contentUrlValidating |-> FALSE, heads |-> {}]

\* now() when the profiles row was inserted.
CreatedAt == "t0"

\* A profiles row as handle_new_user inserts it: full_name from the sign-up
\* metadata (here none), the other columns at their default.
NewProfile(u) ==
    [user_id |-> u, full_name |-> NULL, avatar_url |-> NULL, role |-> "user",
     updated_at |-> CreatedAt, completed |-> 0, enrolled |-> 0, uploads |-> 0]

\* A user_courses row as the two add-to-library handlers insert it.
NewUserCourse(rid, u, cid) ==
    [id |-> rid, user_id |-> u, course_id |-> cid,
     completed |-> FALSE, completed_at |-> NULL]

\* A courses row as UploadCourseModal inserts it.
NewCourse(rid, u, title) ==
    [id |-> rid, uploader_id |-> u, title |-> title]

VARIABLES
    profiles,      \* committed profiles: user -> row or NoProfile
    courses,       \* committed courses rows
    user_courses,  \* committed user_courses rows
    nextId,        \* next fresh row id of each table (gen_random_uuid)
    tx,            \* per session: the request in flight
    races,         \* handlers started while another was in progress
    last,          \* the request that just ended, and what it changed
    chain,         \* the last commit as a step of a two-request sequence
    scen,          \* progress of the four-step scenario of a fresh user
    auth_users,    \* the identities of auth.users
    probe,         \* the last read request and the rows it returned
    seen,          \* per browser tab: the page shown and the enrollment it last read
    modal          \* the open course form: its React state and its HEAD requests

vars == <<profiles, courses, user_courses, nextId, tx, races, last, chain, scen,
          auth_users, probe, seen, modal>>

\* ------------------------------------------------------------- counts
Stats(p) == [completed |-> p.completed, enrolled |-> p.enrolled, uploads |-> p.uploads]

\* Counts that leave out the filter completed = true.
StatsOfUnfiltered(uc, cr, user_uuid) ==
    [completed |-> Cardinality({r \in uc : r.user_id = user_uuid}),
     enrolled  |-> Cardinality({r \in uc : r.user_id = user_uuid}),
     uploads   |-> Cardinality({c \in cr : c.uploader_id = user_uuid})]

\* The three COUNT(*) subqueries of update_profile_stats over a view of the
\* two tables.
StatsOf(uc, cr, user_uuid) ==
    [completed |-> Cardinality({r \in uc : r.user_id = user_uuid /\ r.completed = TRUE}),
     enrolled  |-> Cardinality({r \in uc : r.user_id = user_uuid}),
     uploads   |-> Cardinality({c \in cr : c.uploader_id = user_uuid})]

\* A recompute that adds the counts to the stored counters.
SetStatsAdding(pf, user_uuid, s) ==
    IF pf[user_uuid] = NoProfile THEN pf
    ELSE [pf EXCEPT ![user_uuid].completed = @ + s.completed,
                    ![user_uuid].enrolled = @ + s.enrolled,
                    ![user_uuid].uploads = @ + s.uploads]

\* A recompute that inserts the profile it does not find.
SetStatsUpsert(pf, user_uuid, s) ==
    [pf EXCEPT ![user_uuid] =
        [NewProfile(user_uuid) EXCEPT !.completed = s.completed,
                                      !.enrolled = s.enrolled,
                                      !.uploads = s.uploads]]

\* A recompute whose UPDATE has no WHERE clause.
SetStatsAll(pf, user_uuid, s) ==
    [u \in Users |->
        IF pf[u] = NoProfile THEN pf[u]
        ELSE [pf[u] EXCEPT !.completed = s.completed,
                           !.enrolled = s.enrolled,
                           !.uploads = s.uploads]]

\* UPDATE profiles SET ... WHERE user_id = user_uuid: no row, no effect.
SetStats(pf, user_uuid, s) ==
    IF pf[user_uuid] = NoProfile THEN pf
    ELSE [pf EXCEPT ![user_uuid].completed = s.completed,
                    ![user_uuid].enrolled = s.enrolled,
                    ![user_uuid].uploads = s.uploads]

\* update_profile_stats(user_uuid) run alone against committed tables.
update_profile_stats(pf, uc, cr, user_uuid) ==
    SetStats(pf, user_uuid, StatsOf(uc, cr, user_uuid))

\* ------------------------------------------------------------- policies
\* "Users can enroll in courses": INSERT WITH CHECK (auth.uid() = user_id).
RlsUserCoursesInsert(uid, row) == uid = row.user_id

\* "Users can view own enrolled courses": SELECT USING (auth.uid() = user_id).
RlsUserCoursesSelect(uid, row) == uid = row.user_id

\* A user_courses policy that passes every row to every signed-in user.
RlsUserCoursesOwnOpen(uid, row) == uid \in Users

\* "Users can update own course progress" / "Users can remove courses from
\* library": USING (auth.uid() = user_id).  An UPDATE policy without WITH
\* CHECK applies its USING expression to the new row as well.
RlsUserCoursesOwn(uid, row) == uid = row.user_id

\* An insert policy that passes every row of a signed-in user.
RlsCoursesInsertOpen(uid, row) == uid \in Users

\* "Users can insert own courses": INSERT WITH CHECK (auth.uid() = uploader_id).
RlsCoursesInsert(uid, row) == uid = row.uploader_id

\* A courses policy that lets every authenticated user update every row.
RlsCoursesOwnOpen(uid, row) == uid \in Users

\* "Users can update own courses" / "Users can delete own courses":
\* USING (auth.uid() = uploader_id).
RlsCoursesOwn(uid, row) == uid = row.uploader_id

\* "Users can view all profiles": SELECT USING (true).
RlsProfilesSelect(uid, row) == TRUE

\* An update policy that passes every profile to every signed-in user.
RlsProfilesUpdateOpen(uid, row) == uid \in Users

\* "Users can update own profile": UPDATE USING (auth.uid() = user_id), of
\* whatever columns.
RlsProfilesUpdate(uid, row) == uid = row.user_id

\* "Users can insert own profile": INSERT WITH CHECK (auth.uid() = user_id).
RlsProfilesInsert(uid, row) == uid = row.user_id

\* A delete policy like those of the other two tables.
RlsProfilesDeleteOwn(uid, row) == uid = row.user_id

\* profiles has no DELETE policy: row level security passes no row.
RlsProfilesDelete(uid, row) == FALSE

\* The columns of a courses row that its SELECT policies read.  is_approved
\* is a nullable boolean: "true", "false" or NULL.
Approvals == {"true", "false", NULL}
AccessTypes == {"private", "public", "premium"}
Roles == {"user", "premium", "admin"}
CourseRow(uploader, approved, access) ==
    [id |-> 1, uploader_id |-> uploader, is_approved |-> approved,
     access_type |-> access]

\* "Anyone can view approved public courses":
\* USING (is_approved = true AND access_type = 'public').
RlsCoursesSelectPublic(uid, pf, c) ==
    c.is_approved = "true" /\ c.access_type = "public"

\* A premium policy that does not look at is_approved.
RlsCoursesSelectPremiumUnapproved(uid, pf, c) ==
    \/ c.access_type = "public"
    \/ /\ c.access_type = "premium"
       /\ \E u \in Users :
            /\ pf[u] # NoProfile
            /\ pf[u].user_id = uid
            /\ pf[u].role \in {"premium", "admin"}

\* "Premium users can view premium courses": USING (is_approved = true AND
\* (access_type = 'public' OR (access_type = 'premium' AND EXISTS (SELECT 1
\* FROM profiles WHERE user_id = auth.uid() AND role IN ('premium', 'admin'))))).
RlsCoursesSelectPremium(uid, pf, c) ==
    /\ c.is_approved = "true"
    /\ \/ c.access_type = "public"
       \/ /\ c.access_type = "premium"
          /\ \E u \in Users :
                /\ pf[u] # NoProfile
                /\ pf[u].user_id = uid
                /\ pf[u].role \in {"premium", "admin"}

\* "Users can view own private courses": USING (uploader_id = auth.uid()).
RlsCoursesSelectOwn(uid, pf, c) == c.uploader_id = uid

\* The permissive SELECT policies of courses, OR-ed.
RlsCoursesSelect(uid, pf, c) ==
    \/ RlsCoursesSelectPublic(uid, pf, c)
    \/ RlsCoursesSelectPremium(uid, pf, c)
    \/ RlsCoursesSelectOwn(uid, pf, c)

\* ------------------------------------------------------------- triggers
\* A trigger that recomputes the user of the OLD row whenever there is one.
TriggerUserOld(old, new) == IF old # NoRow THEN old.user_id ELSE new.user_id

\* trigger_update_profile_stats: NEW.user_id on INSERT and UPDATE,
\* OLD.user_id on DELETE.
TriggerUser(old, new) == IF new # NoRow THEN new.user_id ELSE old.user_id

\* trigger_update_upload_stats: NEW.uploader_id on INSERT and UPDATE,
\* OLD.uploader_id on DELETE.
TriggerUploader(old, new) == IF new # NoRow THEN new.uploader_id ELSE old.uploader_id

\* ------------------------------------------------------------- requests
TxIdle ==
    [pc |-> "idle", op |-> "none", actor |-> NoUser, tbl |-> "none",
     old |-> NoRow, new |-> NoRow, target |-> NoUser, stats |-> NoStats,
     overlap |-> FALSE, cid |-> 0]

\* A table with one row replaced, inserted (old = NoRow) or deleted (new = NoRow).
ApplyRow(table, old, new) ==
    (table \ {old}) \cup (IF new = NoRow THEN {} ELSE {new})

\* Another transaction in flight holds the lock of row rid of table tbl.
RowBusy(tbl, rid) ==
    \E t \in Sessions :
        /\ tx[t].pc = "open"
        /\ tx[t].tbl = tbl
        /\ (tx[t].old.id = rid \/ tx[t].new.id = rid)

\* Another transaction in flight inserts or deletes a user_courses row of
\* course cid (it holds, or waits for, the key lock of that courses row).
CourseRefBusy(cid) ==
    \E t \in Sessions :
        /\ tx[t].pc = "open"
        /\ tx[t].tbl = "user_courses"
        /\ \/ (tx[t].old # NoRow /\ tx[t].old.course_id = cid)
           \/ (tx[t].new # NoRow /\ tx[t].new.course_id = cid)

\* Another transaction in flight inserts a user_courses row for the pair.
PairBusy(u, cid) ==
    \E t \in Sessions :
        /\ tx[t].pc = "open"
        /\ tx[t].tbl = "user_courses"
        /\ tx[t].new # NoRow
        /\ tx[t].new.user_id = u
        /\ tx[t].new.course_id = cid

\* ------------------------------------------------------------- sequences
Zero == [completed |-> 0, enrolled |-> 0, uploads |-> 0]

\* The row that transaction t wrote or deleted.
RowId(t) == IF t.new # NoRow THEN t.new.id ELSE t.old.id

Completes(t) ==
    /\ t.op \in {"toggleCourseCompletion", "handleMarkCompleted"}
    /\ ~t.old.completed
    /\ t.new.completed

Uncompletes(t) ==
    /\ t.op \in {"toggleCourseCompletion", "handleMarkCompleted"}
    /\ t.old.completed
    /\ ~t.new.completed

\* The last commit as the first or the second step of a two-request
\* sequence of one user with nothing in between: add then remove the same
\* row, complete then un-complete the same row, add twice starting from no
\* enrollment (two transactions, the second possibly in flight when the
\* first commits).  base holds the user's counters before the first step.
NoChain == [kind |-> "none", target |-> NoUser, id |-> 0, base |-> NoStats]

\* Request t follows the first step as the second step of a sequence.
Continues(t) ==
    \/ /\ chain.kind \in {"add", "addFirst"}
       /\ t.op = "removeCourseFromLibrary"
       /\ t.old.id = chain.id
    \/ /\ chain.kind = "addFirst"
       /\ t.op = "addToLibrary"
       /\ t.target = chain.target
    \/ /\ chain.kind = "complete"
       /\ Uncompletes(t)
       /\ t.old.id = chain.id

\* The sequence once transaction t has committed.
ChainStep(t) ==
    IF profiles[t.target] = NoProfile THEN NoChain
    ELSE IF Continues(t) /\ t.op = "addToLibrary"
         THEN [chain EXCEPT !.kind = "addAdd", !.id = RowId(t)]
    ELSE IF t.overlap THEN NoChain
    ELSE IF Continues(t)
         THEN [chain EXCEPT !.kind = IF t.op = "removeCourseFromLibrary"
                                     THEN "addRemove" ELSE "toggleBack",
                            !.id = RowId(t)]
    ELSE IF t.op = "addToLibrary"
         THEN [kind |-> IF {r \in user_courses : r.user_id = t.target} = {}
                        THEN "addFirst" ELSE "add",
               target |-> t.target, id |-> RowId(t),
               base |-> Stats(profiles[t.target])]
    ELSE IF Completes(t)
         THEN [kind |-> "complete", target |-> t.target, id |-> RowId(t),
               base |-> Stats(profiles[t.target])]
    ELSE NoChain

\* The scenario of a fresh user u, followed request by request: u enrolls
\* in a course of another user (stage 1), marks the enrollment completed
\* (2), uploads a course (3), deletes the enrollment (4).
NoScen == [stage |-> 0, u |-> NoUser, e |-> 0]

\* Request t is the next step of the scenario.
ScenContinues(t) ==
    /\ t.actor = scen.u
    /\ \/ scen.stage = 1 /\ Completes(t) /\ t.old.id = scen.e
       \/ scen.stage = 2 /\ t.op = "uploadCourse"
       \/ scen.stage = 3 /\ t.op = "removeCourseFromLibrary" /\ t.old.id = scen.e

\* The scenario once transaction t has committed.
ScenStep(t) ==
    IF t.overlap THEN NoScen
    ELSE IF ScenContinues(t) THEN [scen EXCEPT !.stage = @ + 1]
    ELSE IF /\ t.op = "addToLibrary"
            /\ profiles[t.actor] # NoProfile
            /\ Stats(profiles[t.actor]) = Zero
            /\ StatsOf(user_courses, courses, t.actor) = Zero
         THEN [stage |-> 1, u |-> t.actor, e |-> t.new.id]
    ELSE NoScen

\* The request that ended, until the next request starts.  own: the actor
\* owns the row addressed.  rows: rows the statement changed.  overlap:
\* another transaction committed the same user's counters while this one was
\* in flight.  target: the user the trigger recomputed.  touched: the users
\* whose profile the request changed.  changed: a table changed.
NoRequest ==
    [op |-> "none", own |-> FALSE, rows |-> 0, outcome |-> "none",
     overlap |-> FALSE, target |-> NoUser, touched |-> {}, changed |-> FALSE]

\* A request whose statement changes no row (no row passes the filter and
\* the policy, or a constraint rejects the row): it ends at once, no
\* trigger fires.
NoEffect(op, own, outcome) ==
    /\ last' = [NoRequest EXCEPT !.op = op, !.own = own, !.outcome = outcome]
    /\ chain' = NoChain
    /\ scen' = NoScen
    /\ UNCHANGED <<profiles, courses, user_courses, nextId, auth_users, probe, seen, modal>>

\* The statement changed one row of tbl; the row trigger calls
\* update_profile_stats(target), whose UPDATE takes its snapshot now: the
\* committed rows and this transaction's own change.
Begin(s, op, actor, tbl, old, new, target, cid) ==
    LET uc == IF tbl = "user_courses" THEN ApplyRow(user_courses, old, new)
              ELSE user_courses
        cr == IF tbl = "courses" THEN ApplyRow(courses, old, new) ELSE courses
        t == [pc |-> "open", op |-> op, actor |-> actor, tbl |-> tbl,
              old |-> old, new |-> new, target |-> target,
              stats |-> StatsOf(uc, cr, target), overlap |-> FALSE,
              cid |-> cid]
    IN  /\ tx' = [tx EXCEPT ![s] = t]
        /\ last' = NoRequest
        /\ chain' = IF Continues(t) THEN chain ELSE NoChain
        /\ scen' = IF ScenContinues(t) THEN scen ELSE NoScen
        /\ UNCHANGED <<profiles, courses, user_courses, auth_users, probe, seen, modal>>

\* A courses row is being inserted or deleted by a transaction in flight.
CourseKeyBusy(cid) ==
    \E t \in Sessions :
        /\ tx[t].pc = "open"
        /\ tx[t].tbl = "courses"
        /\ (tx[t].old.id = cid \/ tx[t].new.id = cid)
        /\ (tx[t].old = NoRow \/ tx[t].new = NoRow)

\* Another session is in the middle of a handler.
Busy(s) == \E r \in Sessions : r # s /\ tx[r].pc # "idle"

\* A handler starts in session s.  The sessions are interchangeable: the
\* request in flight with the lowest number is the one that came first.
Arrive(s) ==
    /\ tx[s].pc = "idle"
    /\ \A r \in Sessions : r < s => tx[r].pc # "idle"
    /\ Busy(s) => races < MaxRaces
    /\ races' = IF Busy(s) THEN races + 1 ELSE races

\* ------------------------------------------------------------- handlers
\* A table without the unique constraint.
DuplicateNone(uc, u, cid) == {}

\* UNIQUE(user_id, course_id): the rows an insert for the pair collides with.
Duplicate(uc, u, cid) == {r \in uc : r.user_id = u /\ r.course_id = cid}

\* Browse.addToLibrary and Learn.handleAddToLibrary: the same insert
\* {user_id: user.id, course_id, completed: false}.
addToLibrary(s, actor, courseId) ==
    LET row == NewUserCourse(nextId.e, actor, courseId)
        dup == Duplicate(user_courses, actor, courseId)
    IN  /\ Arrive(s)
        /\ ~CourseKeyBusy(courseId)
        /\ ~PairBusy(actor, courseId)
        /\ \A r \in dup : ~RowBusy("user_courses", r.id)
        /\ IF \/ ~RlsUserCoursesInsert(actor, row)
              \/ ~(\E c \in courses : c.id = courseId)
              \/ dup # {}
           THEN /\ NoEffect("addToLibrary", TRUE,
                            IF dup # {} THEN "duplicate" ELSE "error")
                /\ UNCHANGED tx
           ELSE /\ nextId.e <= MaxEnrollments
                /\ nextId' = [nextId EXCEPT !.e = @ + 1]
                /\ Begin(s, "addToLibrary", actor, "user_courses", NoRow, row,
                         TriggerUser(NoRow, row), 0)

\* A completion update that stamps the row whichever way it goes.
ToggledStamped(old, status) ==
    [old EXCEPT !.completed = ~status, !.completed_at = Timestamp]

\* The row a completion update writes.
Toggled(old, status) ==
    [old EXCEPT !.completed = ~status,
                !.completed_at = IF ~status THEN Timestamp ELSE NULL]

\* Library.toggleCourseCompletion(userCourseId, currentStatus):
\* update ... .eq('id', userCourseId).eq('user_id', user.id).
toggleCourseCompletion(s, actor, userCourseId, currentStatus) ==
    LET hit == {r \in user_courses :
                    /\ r.id = userCourseId
                    /\ r.user_id = actor
                    /\ RlsUserCoursesOwn(actor, r)}
    IN  /\ Arrive(s)
        /\ ~RowBusy("user_courses", userCourseId)
        /\ IF hit = {}
           THEN /\ NoEffect("toggleCourseCompletion", FALSE, "ok")
                /\ UNCHANGED tx
           ELSE LET old == CHOOSE r \in hit : TRUE
                    new == Toggled(old, currentStatus)
                IN  /\ RlsUserCoursesOwn(actor, new)
                    /\ UNCHANGED nextId
                    /\ Begin(s, "toggleCourseCompletion", actor, "user_courses",
                             old, new, TriggerUser(old, new), 0)

\* Learn.handleMarkCompleted with the page's userCourseId and completed:
\* update ... .eq('id', userCourseId).
handleMarkCompleted(s, actor, userCourseId, completed) ==
    LET hit == {r \in user_courses :
                    r.id = userCourseId /\ RlsUserCoursesOwn(actor, r)}
    IN  /\ Arrive(s)
        /\ ~RowBusy("user_courses", userCourseId)
        /\ IF hit = {}
           THEN /\ NoEffect("handleMarkCompleted", FALSE, "ok")
                /\ UNCHANGED tx
           ELSE LET old == CHOOSE r \in hit : TRUE
                    new == Toggled(old, completed)
                IN  /\ RlsUserCoursesOwn(actor, new)
                    /\ UNCHANGED nextId
                    /\ Begin(s, "handleMarkCompleted", actor, "user_courses",
                             old, new, TriggerUser(old, new), 0)

\* Library.removeCourseFromLibrary(userCourseId):
\* delete ... .eq('id', userCourseId).eq('user_id', user.id).
removeCourseFromLibrary(s, actor, userCourseId) ==
    LET hit == {r \in user_courses :
                    /\ r.id = userCourseId
                    /\ r.user_id = actor
                    /\ RlsUserCoursesOwn(actor, r)}
    IN  /\ Arrive(s)
        /\ ~RowBusy("user_courses", userCourseId)
        /\ IF hit = {}
           THEN /\ NoEffect("removeCourseFromLibrary", FALSE, "ok")
                /\ UNCHANGED tx
           ELSE LET old == CHOOSE r \in hit : TRUE
                IN  /\ UNCHANGED nextId
                    /\ Begin(s, "removeCourseFromLibrary", actor, "user_courses",
                             old, NoRow, TriggerUser(old, NoRow), 0)

\* UploadCourseModal.handleSubmit: insert into courses with
\* uploader_id: user.id.  fk_courses_uploader_profiles wants the uploader's
\* profile.
uploadCourse(s, actor, title) ==
    LET row == NewCourse(nextId.c, actor, title)
    IN  /\ Arrive(s)
        /\ IF ~RlsCoursesInsert(actor, row) \/ profiles[actor] = NoProfile
           THEN /\ NoEffect("uploadCourse", TRUE, "error")
                /\ UNCHANGED tx
           ELSE /\ nextId.c <= MaxCourses
                /\ nextId' = [nextId EXCEPT !.c = @ + 1]
                /\ Begin(s, "uploadCourse", actor, "courses", NoRow, row,
                         TriggerUploader(NoRow, row), 0)

\* EditCourseModal.handleSubmit: update courses ... .eq('id', course.id).
editCourse(s, actor, courseId, title) ==
    LET hit == {c \in courses : c.id = courseId /\ RlsCoursesOwn(actor, c)}
    IN  /\ Arrive(s)
        /\ ~RowBusy("courses", courseId)
        /\ IF hit = {}
           THEN /\ NoEffect("editCourse", FALSE, "ok")
                /\ UNCHANGED tx
           ELSE LET old == CHOOSE c \in hit : TRUE
                    new == [old EXCEPT !.title = title]
                IN  /\ RlsCoursesOwn(actor, new)
                    /\ UNCHANGED nextId
                    /\ Begin(s, "editCourse", actor, "courses", old, new,
                             TriggerUploader(old, new), 0)

\* A courses table nothing refers to.
ReferencedNever(uc, cid) == FALSE

\* user_courses_course_id_fkey, without ON DELETE action: a row of
\* user_courses refers to the course.
Referenced(uc, cid) == \E r \in uc : r.course_id = cid

\* The session between the two requests of handleDeleteCourse; removed is
\* the user_courses row its first request deleted, NoRow when none.
Del2(actor, courseId, removed) ==
    [TxIdle EXCEPT !.pc = "del2", !.actor = actor, !.cid = courseId,
                   !.old = removed]

\* Dashboard.handleDeleteCourse(courseId), first request:
\* delete from user_courses ... .eq('course_id', courseId); its result is
\* not looked at.
handleDeleteCourse(s, actor, courseId) ==
    LET hit == {r \in user_courses :
                    r.course_id = courseId /\ RlsUserCoursesOwn(actor, r)}
    IN  /\ Arrive(s)
        /\ \A r \in hit : ~RowBusy("user_courses", r.id)
        /\ IF hit = {}
           THEN /\ NoEffect("deleteCourseEnrollments", TRUE, "ok")
                /\ tx' = [tx EXCEPT ![s] = Del2(actor, courseId, NoRow)]
           ELSE LET old == CHOOSE r \in hit : TRUE
                IN  /\ UNCHANGED nextId
                    /\ Begin(s, "deleteCourseEnrollments", actor, "user_courses",
                             old, NoRow, TriggerUser(old, NoRow), courseId)

\* Dashboard.handleDeleteCourse, second request:
\* delete from courses ... .eq('id', courseId).eq('uploader_id', user.id).
\* user_courses_course_id_fkey has no ON DELETE action: a referenced course
\* cannot be deleted.
deleteCourseRow(s) ==
    LET actor == tx[s].actor
        courseId == tx[s].cid
        hit == {c \in courses :
                    /\ c.id = courseId
                    /\ c.uploader_id = actor
                    /\ RlsCoursesOwn(actor, c)}
    IN  /\ tx[s].pc = "del2"
        /\ UNCHANGED races
        /\ ~RowBusy("courses", courseId)
        /\ ~CourseRefBusy(courseId)
        /\ IF hit = {}
           THEN /\ NoEffect("deleteCourse", FALSE, "ok")
                /\ tx' = [tx EXCEPT ![s] = TxIdle]
           ELSE IF Referenced(user_courses, courseId)
           THEN /\ NoEffect("deleteCourse", TRUE, "error")
                /\ tx' = [tx EXCEPT ![s] = TxIdle]
           ELSE LET old == CHOOSE c \in hit : TRUE
                IN  /\ UNCHANGED nextId
                    /\ Begin(s, "deleteCourse", actor, "courses", old, NoRow,
                             TriggerUploader(old, NoRow), 0)

\* ------------------------------------------------------------- commit
\* What a session does after its request ended.
After(t, removed) ==
    IF t.op = "deleteCourseEnrollments" THEN Del2(t.actor, t.cid, removed)
    ELSE TxIdle

\* A commit that keeps the counters and loses the row change.
CommittedLost(tbl, table, t) == table

\* The committed table tbl once transaction t has committed.
Committed(tbl, table, t) ==
    IF t.tbl = tbl THEN ApplyRow(table, t.old, t.new) ELSE table

\* The trigger's UPDATE gets the lock of the profile row and writes the
\* counts it read; the transaction commits, the row change and the counters
\* together.  A transaction still in flight that recomputes the same user
\* has read its counts before this commit.
Commit(s) ==
    LET t == tx[s]
    IN  /\ t.pc = "open"
        /\ user_courses' = Committed("user_courses", user_courses, t)
        /\ courses' = Committed("courses", courses, t)
        /\ profiles' = SetStats(profiles, t.target, t.stats)
        /\ tx' = [u \in Sessions |->
                    IF u = s THEN After(t, t.old)
                    ELSE IF tx[u].pc = "open" /\ tx[u].target = t.target
                         THEN [tx[u] EXCEPT !.overlap = TRUE]
                         ELSE tx[u]]
        /\ last' =
            [op |-> t.op, own |-> (t.actor = t.target), rows |-> 1,
             outcome |-> "ok", overlap |-> t.overlap, target |-> t.target,
             touched |-> {u \in Users : profiles'[u] # profiles[u]},
             changed |-> (courses' # courses \/ user_courses' # user_courses)]
        /\ chain' = ChainStep(t)
        /\ scen' = ScenStep(t)
        /\ UNCHANGED <<nextId, races, auth_users, probe, seen, modal>>

\* The transaction fails before it commits (the statement or the trigger's
\* UPDATE is cancelled, the connection is lost): nothing of it is kept.
Rollback(s) ==
    LET t == tx[s]
    IN  /\ t.pc = "open"
        /\ tx' = [tx EXCEPT ![s] = After(t, NoRow)]
        /\ last' = [NoRequest EXCEPT !.op = t.op, !.own = (t.actor = t.target),
                                     !.outcome = "rollback"]
        /\ chain' = NoChain
        /\ scen' = NoScen
        /\ UNCHANGED <<profiles, courses, user_courses, nextId, races,
                        auth_users, probe, seen, modal>>

\* ------------------------------------------------------------- system
\* The empty database after the migrations.
Start ==
    /\ courses = {}
    /\ user_courses = {}
    /\ nextId = [c |-> 1, e |-> 1]
    /\ tx = [s \in Sessions |-> TxIdle]
    /\ last = NoRequest
    /\ chain = NoChain
    /\ scen = NoScen
    /\ seen = [s \in Sessions |-> NoSeen]
    /\ modal = NoModal

\* Every user has an identity in auth.users.  A user created after
\* on_auth_user_created was installed has the profile handle_new_user
\* inserted; a user created before has none.  Here u1 has a profile and u2
\* is such an earlier user.
Init ==
    /\ Start
    /\ profiles = [u \in Users |-> IF u = "u1" THEN NewProfile(u) ELSE NoProfile]
    /\ auth_users = Users
    /\ probe = NoProbe
    /\ races = 0

\* Both populations, u2 with a profile and without, when the clients
\* happen never to have two handlers in progress at once.
InitSerial ==
    /\ Start
    /\ profiles \in [Users -> {NoProfile} \cup {NewProfile(u) : u \in Users}]
    /\ \A u \in Users : profiles[u] \in {NoProfile, NewProfile(u)}
    /\ profiles["u1"] # NoProfile
    /\ auth_users = Users
    /\ probe = NoProbe
    /\ races = MaxRaces

CourseIds == {c.id : c \in courses}
UserCourseIds == {r.id : r \in user_courses}

Next ==
    \E s \in Sessions :
        \/ \E actor \in Users, courseId \in CourseIds :
                addToLibrary(s, actor, courseId)
        \/ \E actor \in Users, id \in UserCourseIds, status \in BOOLEAN :
                toggleCourseCompletion(s, actor, id, status)
        \/ \E actor \in Users, id \in UserCourseIds, status \in BOOLEAN :
                handleMarkCompleted(s, actor, id, status)
        \/ \E actor \in Users, id \in UserCourseIds :
                removeCourseFromLibrary(s, actor, id)
        \/ \E actor \in Users, title \in Titles :
                uploadCourse(s, actor, title)
        \/ \E actor \in Users, courseId \in CourseIds, title \in Titles :
                editCourse(s, actor, courseId, title)
        \/ \E actor \in Users :
                \E c \in {x \in courses : x.uploader_id = actor} :
                    handleDeleteCourse(s, actor, c.id)
        \/ deleteCourseRow(s)
        \/ Commit(s)
        \/ Rollback(s)

Spec == Init /\ [][Next]_vars

\* The behaviours in which the handlers run one after the other.
SpecSerial == InitSerial /\ [][Next]_vars

\* ------------------------------------------------------------- reading courses
\* Some profiles, whatever their role, and some courses row.
InitSelect ==
    /\ Start
    /\ races = 0
    /\ auth_users = Users
    /\ profiles \in [Users -> {NoProfile} \cup
                        {[NewProfile(u) EXCEPT !.role = r] : u \in Users, r \in Roles}]
    /\ \A u \in Users : profiles[u] # NoProfile => profiles[u].user_id = u
    /\ \E uploader \in Users, approved \in Approvals, access \in AccessTypes :
            probe = [NoProbe EXCEPT !.row = CourseRow(uploader, approved, access)]

\* select * from courses where id = ..., by a signed-in or an anonymous
\* reader: the row comes back if a SELECT policy passes it.
selectCourse(actor) ==
    /\ probe' = [probe EXCEPT !.op = "selectCourse", !.actor = actor,
                              !.visible = RlsCoursesSelect(actor, profiles, probe.row)]
    /\ UNCHANGED <<profiles, courses, user_courses, nextId, tx, races, last,
                   chain, scen, auth_users, seen, modal>>

NextSelect == \E actor \in Actors : selectCourse(actor)

SpecSelect == InitSelect /\ [][NextSelect]_vars

\* ------------------------------------------------------------- the REST endpoint
\* The statements any holder of the project's public key can send to the
\* tables, with a session or without: the policies, the constraints and the
\* triggers decide what they do.  Each is one transaction; here they run
\* one after the other.

\* Whose row a statement addresses.
HitOf(actor, owners) ==
    IF owners = {} THEN "none" ELSE IF owners = {actor} THEN "own" ELSE "other"

\* The request ended and changed nothing.
Refused(op, actor, hit, outcome) ==
    /\ probe' = [NoProbe EXCEPT !.op = op, !.actor = actor, !.hit = hit,
                                !.outcome = outcome]
    /\ UNCHANGED <<profiles, courses, user_courses, nextId>>

\* The request changed a row.
Done(op, actor, hit) ==
    probe' = [NoProbe EXCEPT !.op = op, !.actor = actor, !.hit = hit,
                            !.outcome = "ok"]

\* What no statement sent to the tables changes.
ApiFrame == UNCHANGED <<tx, races, last, chain, scen, auth_users, seen, modal>>

\* select * from user_courses.
apiSelectUserCourses(actor) ==
    /\ probe' = [NoProbe EXCEPT
                    !.op = "apiSelectUserCourses", !.actor = actor,
                    !.outcome = "ok",
                    !.rows = {r \in user_courses : RlsUserCoursesSelect(actor, r)}]
    /\ UNCHANGED <<profiles, courses, user_courses, nextId>>
    /\ ApiFrame

\* insert into user_courses (user_id, course_id) values (u, cid).
apiInsertUserCourse(actor, u, cid) ==
    LET row == NewUserCourse(nextId.e, u, cid)
        op == "apiInsertUserCourse"
        hit == HitOf(actor, {u})
    IN  /\ ApiFrame
        /\ IF \/ ~RlsUserCoursesInsert(actor, row)
              \/ u \notin auth_users
              \/ ~(\E c \in courses : c.id = cid)
              \/ Duplicate(user_courses, u, cid) # {}
           THEN Refused(op, actor, hit, "error")
           ELSE /\ nextId.e <= MaxEnrollments
                /\ nextId' = [nextId EXCEPT !.e = @ + 1]
                /\ user_courses' = ApplyRow(user_courses, NoRow, row)
                /\ profiles' = update_profile_stats(profiles, user_courses', courses,
                                                    TriggerUser(NoRow, row))
                /\ UNCHANGED courses
                /\ Done(op, actor, hit)

\* update user_courses set user_id = u, completed = ..., completed_at = ...
\* where id = rid.
apiUpdateUserCourse(actor, rid, u, status) ==
    LET op == "apiUpdateUserCourse"
        addressed == {r \in user_courses : r.id = rid}
        hit == HitOf(actor, {r.user_id : r \in addressed})
        pass == {r \in addressed :
                    RlsUserCoursesSelect(actor, r) /\ RlsUserCoursesOwn(actor, r)}
    IN  /\ ApiFrame
        /\ IF pass = {}
           THEN Refused(op, actor, hit, "denied")
           ELSE LET old == CHOOSE r \in pass : TRUE
                    new == [Toggled(old, status) EXCEPT !.user_id = u]
                IN  IF \/ ~RlsUserCoursesOwn(actor, new)
                       \/ u \notin auth_users
                       \/ Duplicate(user_courses \ {old}, u, new.course_id) # {}
                    THEN Refused(op, actor, hit, "error")
                    ELSE /\ user_courses' = ApplyRow(user_courses, old, new)
                         /\ profiles' = update_profile_stats(profiles, user_courses',
                                                    courses, TriggerUser(old, new))
                         /\ UNCHANGED <<courses, nextId>>
                         /\ Done(op, actor, hit)

\* delete from user_courses where id = rid.
apiDeleteUserCourse(actor, rid) ==
    LET op == "apiDeleteUserCourse"
        addressed == {r \in user_courses : r.id = rid}
        hit == HitOf(actor, {r.user_id : r \in addressed})
        pass == {r \in addressed :
                    RlsUserCoursesSelect(actor, r) /\ RlsUserCoursesOwn(actor, r)}
    IN  /\ ApiFrame
        /\ IF pass = {}
           THEN Refused(op, actor, hit, "denied")
           ELSE LET old == CHOOSE r \in pass : TRUE
                IN  /\ user_courses' = ApplyRow(user_courses, old, NoRow)
                    /\ profiles' = update_profile_stats(profiles, user_courses',
                                                    courses, TriggerUser(old, NoRow))
                    /\ UNCHANGED <<courses, nextId>>
                    /\ Done(op, actor, hit)

\* insert into courses (uploader_id, title, ...) values (u, title, ...).
apiInsertCourse(actor, u, title) ==
    LET row == NewCourse(nextId.c, u, title)
        op == "apiInsertCourse"
        hit == HitOf(actor, {u})
    IN  /\ ApiFrame
        /\ IF \/ ~RlsCoursesInsert(actor, row)
              \/ u \notin auth_users
              \/ profiles[u] = NoProfile
           THEN Refused(op, actor, hit, "error")
           ELSE /\ nextId.c <= MaxCourses
                /\ nextId' = [nextId EXCEPT !.c = @ + 1]
                /\ courses' = ApplyRow(courses, NoRow, row)
                /\ profiles' = update_profile_stats(profiles, user_courses, courses',
                                                    TriggerUploader(NoRow, row))
                /\ UNCHANGED user_courses
                /\ Done(op, actor, hit)

\* update courses set uploader_id = u, title = title where id = cid.  The
\* rows an UPDATE with a WHERE clause addresses pass the SELECT policies too;
\* here every course is approved and public.
apiUpdateCourse(actor, cid, u, title) ==
    LET op == "apiUpdateCourse"
        addressed == {c \in courses : c.id = cid}
        hit == HitOf(actor, {c.uploader_id : c \in addressed})
        pass == {c \in addressed : RlsCoursesOwn(actor, c)}
    IN  /\ ApiFrame
        /\ IF pass = {}
           THEN Refused(op, actor, hit, "denied")
           ELSE LET old == CHOOSE c \in pass : TRUE
                    new == [old EXCEPT !.uploader_id = u, !.title = title]
                IN  IF \/ ~RlsCoursesOwn(actor, new)
                       \/ u \notin auth_users
                       \/ profiles[u] = NoProfile
                    THEN Refused(op, actor, hit, "error")
                    ELSE /\ courses' = ApplyRow(courses, old, new)
                         /\ profiles' = update_profile_stats(profiles, user_courses,
                                                    courses', TriggerUploader(old, new))
                         /\ UNCHANGED <<user_courses, nextId>>
                         /\ Done(op, actor, hit)

\* delete from courses where id = cid.
apiDeleteCourse(actor, cid) ==
    LET op == "apiDeleteCourse"
        addressed == {c \in courses : c.id = cid}
        hit == HitOf(actor, {c.uploader_id : c \in addressed})
        pass == {c \in addressed : RlsCoursesOwn(actor, c)}
    IN  /\ ApiFrame
        /\ IF pass = {}
           THEN Refused(op, actor, hit, "denied")
           ELSE IF Referenced(user_courses, cid)
           THEN Refused(op, actor, hit, "error")
           ELSE LET old == CHOOSE c \in pass : TRUE
                IN  /\ courses' = ApplyRow(courses, old, NoRow)
                    /\ profiles' = update_profile_stats(profiles, user_courses,
                                                    courses', TriggerUploader(old, NoRow))
                    /\ UNCHANGED <<user_courses, nextId>>
                    /\ Done(op, actor, hit)

\* Both users have signed up since on_auth_user_created was installed.
InitApi ==
    /\ Start
    /\ races = 0
    /\ auth_users = Users
    /\ profiles = [u \in Users |-> NewProfile(u)]
    /\ probe = NoProbe

\* The ids that were ever given to a row.
AllCourseIds == 1 .. MaxCourses
AllUserCourseIds == 1 .. MaxEnrollments

NextApi ==
    \E actor \in Actors :
        \/ apiSelectUserCourses(actor)
        \/ \E u \in Users, cid \in AllCourseIds :
                apiInsertUserCourse(actor, u, cid)
        \/ \E rid \in AllUserCourseIds, u \in Users, status \in BOOLEAN :
                apiUpdateUserCourse(actor, rid, u, status)
        \/ \E rid \in AllUserCourseIds :
                apiDeleteUserCourse(actor, rid)
        \/ \E u \in Users, title \in Titles :
                apiInsertCourse(actor, u, title)
        \/ \E cid \in AllCourseIds, u \in Users, title \in Titles :
                apiUpdateCourse(actor, cid, u, title)
        \/ \E cid \in AllCourseIds :
                apiDeleteCourse(actor, cid)

SpecApi == InitApi /\ [][NextApi]_vars

\* ------------------------------------------------------------- profiles
\* What the Profile form holds when it is submitted.
FullNames == {"n1", "n2"}
AvatarUrls == {"a1"}
\* Values a request can write to role and to a counter column, both
\* columns without a restriction of their own in the update policy.
ForgedRoles == {"user", "admin"}
ForgedCounts == {0 - 1, 0}

\* A sign-up trigger that inserts nothing.
handle_new_user_none(pf, new_id) == pf

\* handle_new_user(): INSERT INTO profiles (user_id, full_name) for the new
\* auth.users row.
handle_new_user(pf, new_id) == [pf EXCEPT ![new_id] = NewProfile(new_id)]

\* auth.users gets a row for u; on_auth_user_created fires in the same
\* transaction.
signUp(u) ==
    /\ u \notin auth_users
    /\ profiles[u] = NoProfile
    /\ auth_users' = auth_users \cup {u}
    /\ profiles' = handle_new_user(profiles, u)
    /\ probe' = [NoProbe EXCEPT !.op = "signUp", !.outcome = "ok"]
    /\ UNCHANGED <<courses, user_courses, nextId, tx, races, last, chain, scen,
                   seen, modal>>

\* The profiles rows.
ProfileRows(pf) == {pf[u] : u \in {x \in Users : pf[x] # NoProfile}}

\* select * from profiles.
apiSelectProfiles(actor) ==
    /\ probe' = [NoProbe EXCEPT
                    !.op = "apiSelectProfiles", !.actor = actor, !.outcome = "ok",
                    !.rows = {r \in ProfileRows(profiles) : RlsProfilesSelect(actor, r)}]
    /\ UNCHANGED <<profiles, courses, user_courses, nextId>>
    /\ ApiFrame

\* insert into profiles (user_id) values (u).
apiInsertProfile(actor, u) ==
    LET row == NewProfile(u)
        op == "apiInsertProfile"
        hit == HitOf(actor, {u})
    IN  /\ ApiFrame
        /\ IF \/ ~RlsProfilesInsert(actor, row)
              \/ u \notin auth_users
              \/ profiles[u] # NoProfile
           THEN Refused(op, actor, hit, "error")
           ELSE /\ profiles' = [profiles EXCEPT ![u] = row]
                /\ UNCHANGED <<courses, user_courses, nextId>>
                /\ Done(op, actor, hit)

\* update profiles set user_id = newUser, role = role, enrolled = enrolled
\* where user_id = u.
apiUpdateProfile(actor, u, newUser, role, enrolled) ==
    LET op == "apiUpdateProfile"
        addressed == {r \in ProfileRows(profiles) : r.user_id = u}
        hit == HitOf(actor, {r.user_id : r \in addressed})
        pass == {r \in addressed :
                    RlsProfilesSelect(actor, r) /\ RlsProfilesUpdate(actor, r)}
    IN  /\ ApiFrame
        /\ IF pass = {}
           THEN Refused(op, actor, hit, "denied")
           ELSE LET old == CHOOSE r \in pass : TRUE
                    new == [old EXCEPT !.user_id = newUser, !.role = role,
                                       !.enrolled = enrolled]
                IN  IF \/ ~RlsProfilesUpdate(actor, new)
                       \/ newUser \notin auth_users
                       \/ role \notin Roles
                       \/ newUser # u /\ profiles[newUser] # NoProfile
                       \/ newUser # u /\ \E c \in courses : c.uploader_id = u
                    THEN Refused(op, actor, hit, "error")
                    ELSE /\ profiles' = [[profiles EXCEPT ![u] = NoProfile]
                                            EXCEPT ![newUser] = new]
                         /\ UNCHANGED <<courses, user_courses, nextId>>
                         /\ Done(op, actor, hit)

\* delete from profiles where user_id = u.
apiDeleteProfile(actor, u) ==
    LET op == "apiDeleteProfile"
        addressed == {r \in ProfileRows(profiles) : r.user_id = u}
        hit == HitOf(actor, {r.user_id : r \in addressed})
        pass == {r \in addressed :
                    RlsProfilesSelect(actor, r) /\ RlsProfilesDelete(actor, r)}
    IN  /\ ApiFrame
        /\ IF pass = {}
           THEN Refused(op, actor, hit, "denied")
           ELSE IF \E c \in courses : c.uploader_id = u
           THEN Refused(op, actor, hit, "error")
           ELSE /\ profiles' = [profiles EXCEPT ![u] = NoProfile]
                /\ UNCHANGED <<courses, user_courses, nextId>>
                /\ Done(op, actor, hit)

\* A form that sends back the whole row it once read, as it was inserted.
ProfileEditWholeRow(old, fullName, avatarUrl) ==
    [NewProfile(old.user_id) EXCEPT !.full_name = fullName,
                                    !.avatar_url = avatarUrl,
                                    !.updated_at = Timestamp]

\* The row Profile.updateProfile writes: {full_name, avatar_url, updated_at}.
ProfileEdit(old, fullName, avatarUrl) ==
    [old EXCEPT !.full_name = fullName, !.avatar_url = avatarUrl,
                !.updated_at = Timestamp]

\* Profile.updateProfile: update profiles ... .eq('user_id', user.id).
updateProfile(actor, fullName, avatarUrl) ==
    LET op == "updateProfile"
        addressed == {r \in ProfileRows(profiles) : r.user_id = actor}
        hit == HitOf(actor, {r.user_id : r \in addressed})
        pass == {r \in addressed :
                    RlsProfilesSelect(actor, r) /\ RlsProfilesUpdate(actor, r)}
    IN  /\ ApiFrame
        /\ IF pass = {}
           THEN Refused(op, actor, hit, "denied")
           ELSE LET old == CHOOSE r \in pass : TRUE
                    new == ProfileEdit(old, fullName, avatarUrl)
                IN  /\ RlsProfilesUpdate(actor, new)
                    /\ profiles' = [profiles EXCEPT ![actor] = new]
                    /\ UNCHANGED <<courses, user_courses, nextId>>
                    /\ Done(op, actor, hit)

\* The project after the migrations: no identity, no row.
InitProfiles ==
    /\ Start
    /\ races = 0
    /\ auth_users = {}
    /\ profiles = [u \in Users |-> NoProfile]
    /\ probe = NoProbe

\* Sign-up, the statements on profiles, the Profile form, and uploads, which
\* count in the uploader's profile.
NextProfiles ==
    \/ \E u \in Users : signUp(u)
    \/ \E actor \in Actors : apiSelectProfiles(actor)
    \/ \E actor \in Actors, u \in Users : apiInsertProfile(actor, u)
    \/ \E actor \in Actors, u \in Users, newUser \in Users,
          role \in ForgedRoles, enrolled \in ForgedCounts :
            apiUpdateProfile(actor, u, newUser, role, enrolled)
    \/ \E actor \in Actors, u \in Users : apiDeleteProfile(actor, u)
    \/ \E actor \in auth_users, fullName \in FullNames, avatarUrl \in AvatarUrls :
            updateProfile(actor, fullName, avatarUrl)
    \/ \E actor \in auth_users : apiInsertCourse(actor, actor, "t1")

SpecProfiles == InitProfiles /\ [][NextProfiles]_vars

\* ------------------------------------------------------------- table owner
\* Statements run with the table owner's rights (a SECURITY DEFINER function
\* such as update_course_uploader_emails, the SQL editor, the service key):
\* no policy applies, the constraints and the row triggers do.  Each is one
\* transaction; here they run one after the other.

\* The statement changes one row of tbl and the AFTER ROW trigger of the
\* table calls update_profile_stats once.
Fire(op, tbl, old, new) ==
    LET uc == IF tbl = "user_courses" THEN ApplyRow(user_courses, old, new)
              ELSE user_courses
        cr == IF tbl = "courses" THEN ApplyRow(courses, old, new) ELSE courses
        target == IF tbl = "user_courses" THEN TriggerUser(old, new)
                  ELSE TriggerUploader(old, new)
    IN  /\ user_courses' = uc
        /\ courses' = cr
        /\ profiles' = update_profile_stats(profiles, uc, cr, target)
        /\ probe' = [NoProbe EXCEPT !.op = op, !.outcome = "ok", !.row = old,
                                    !.calls = <<target>>]
        /\ ApiFrame

\* The statement is rejected by a constraint, or matches no row.
Rejected(op) ==
    /\ probe' = [NoProbe EXCEPT !.op = op, !.outcome = "error"]
    /\ UNCHANGED <<profiles, courses, user_courses, nextId>>
    /\ ApiFrame

\* insert into user_courses (user_id, course_id) values (u, cid).
sqlInsertUserCourse(u, cid) ==
    LET row == NewUserCourse(nextId.e, u, cid)
    IN  IF \/ u \notin auth_users
           \/ ~(\E c \in courses : c.id = cid)
           \/ Duplicate(user_courses, u, cid) # {}
        THEN Rejected("sqlInsertUserCourse")
        ELSE /\ nextId.e <= MaxEnrollments
             /\ nextId' = [nextId EXCEPT !.e = @ + 1]
             /\ Fire("sqlInsertUserCourse", "user_courses", NoRow, row)

\* update user_courses set user_id = u, completed = ..., completed_at = ...
\* where id = rid.
sqlUpdateUserCourse(rid, u, status) ==
    \E old \in user_courses :
        /\ old.id = rid
        /\ LET new == [Toggled(old, status) EXCEPT !.user_id = u]
           IN  IF \/ u \notin auth_users
                  \/ Duplicate(user_courses \ {old}, u, new.course_id) # {}
               THEN Rejected("sqlUpdateUserCourse")
               ELSE /\ UNCHANGED nextId
                    /\ Fire("sqlUpdateUserCourse", "user_courses", old, new)

\* delete from user_courses where id = rid.
sqlDeleteUserCourse(rid) ==
    \E old \in user_courses :
        /\ old.id = rid
        /\ UNCHANGED nextId
        /\ Fire("sqlDeleteUserCourse", "user_courses", old, NoRow)

\* insert into courses (uploader_id, title, ...) values (u, title, ...).
sqlInsertCourse(u, title) ==
    LET row == NewCourse(nextId.c, u, title)
    IN  IF u \notin auth_users \/ profiles[u] = NoProfile
        THEN Rejected("sqlInsertCourse")
        ELSE /\ nextId.c <= MaxCourses
             /\ nextId' = [nextId EXCEPT !.c = @ + 1]
             /\ Fire("sqlInsertCourse", "courses", NoRow, row)

\* update courses set uploader_id = u, title = title where id = cid.
sqlUpdateCourse(cid, u, title) ==
    \E old \in courses :
        /\ old.id = cid
        /\ LET new == [old EXCEPT !.uploader_id = u, !.title = title]
           IN  IF u \notin auth_users \/ profiles[u] = NoProfile
               THEN Rejected("sqlUpdateCourse")
               ELSE /\ UNCHANGED nextId
                    /\ Fire("sqlUpdateCourse", "courses", old, new)

\* delete from courses where id = cid.
sqlDeleteCourse(cid) ==
    \E old \in courses :
        /\ old.id = cid
        /\ IF Referenced(user_courses, cid)
           THEN Rejected("sqlDeleteCourse")
           ELSE /\ UNCHANGED nextId
                /\ Fire("sqlDeleteCourse", "courses", old, NoRow)

NextSql ==
    \/ \E u \in Users, cid \in AllCourseIds : sqlInsertUserCourse(u, cid)
    \/ \E rid \in AllUserCourseIds, u \in Users, status \in BOOLEAN :
            sqlUpdateUserCourse(rid, u, status)
    \/ \E rid \in AllUserCourseIds : sqlDeleteUserCourse(rid)
    \/ \E u \in Users, title \in Titles : sqlInsertCourse(u, title)
    \/ \E cid \in AllCourseIds, u \in Users, title \in Titles :
            sqlUpdateCourse(cid, u, title)
    \/ \E cid \in AllCourseIds : sqlDeleteCourse(cid)

SpecSql == InitApi /\ [][NextSql]_vars

\* ------------------------------------------------------------- browser tabs
\* The pages of one browser tab each: what a page read stays in its React
\* state until the page reads again.  Every statement runs to its end before
\* the next one starts.

\* What a page keeps of an enrollment it read.
Viewed(r) == [id |-> r.id, completed |-> r.completed]

\* select ... from user_courses .eq('user_id', user.id), as the actor.
Listed(uc, actor) ==
    {Viewed(r) : r \in {x \in uc : x.user_id = actor /\ RlsUserCoursesSelect(actor, x)}}

\* What no page changes.
TabFrame == UNCHANGED <<nextId, tx, races, last, chain, scen, auth_users, modal>>

\* A request of a page ended.  row: the stored row it addressed.
Answered(op, actor, old) ==
    probe' = [NoProbe EXCEPT !.op = op, !.actor = actor, !.row = old,
                            !.hit = IF old = NoRow THEN "none" ELSE "own",
                            !.outcome = "ok"]

\* Library.fetchLibraryCourses: setUserCourses(data || []).
fetchLibraryCourses(s, actor) ==
    /\ seen' = [seen EXCEPT ![s] = [page |-> "library", user |-> actor,
                                    rows |-> Listed(user_courses, actor)]]
    /\ Answered("fetchLibraryCourses", actor, NoRow)
    /\ UNCHANGED <<profiles, courses, user_courses>>
    /\ TabFrame

\* Learn.checkLibraryStatus: select id, completed ... .eq('user_id', user.id)
\* .eq('course_id', courseId).single(), then setUserCourseId, setCompleted.
checkLibraryStatus(s, actor, courseId) ==
    LET data == {r \in user_courses :
                    /\ r.user_id = actor
                    /\ r.course_id = courseId
                    /\ RlsUserCoursesSelect(actor, r)}
    IN  /\ seen' = [seen EXCEPT ![s] = [page |-> "learn", user |-> actor,
                                        rows |-> {Viewed(r) : r \in data}]]
        /\ Answered("checkLibraryStatus", actor, NoRow)
        /\ UNCHANGED <<profiles, courses, user_courses>>
        /\ TabFrame

\* The completion update of a page, with the status the page holds; the row
\* trigger of user_courses runs in the same statement.
Complete(op, actor, hit, status) ==
    IF hit = {}
    THEN /\ UNCHANGED <<profiles, courses, user_courses>>
         /\ Answered(op, actor, NoRow)
    ELSE LET old == CHOOSE r \in hit : TRUE
             new == Toggled(old, status)
         IN  /\ RlsUserCoursesOwn(actor, new)
             /\ user_courses' = ApplyRow(user_courses, old, new)
             /\ profiles' = update_profile_stats(profiles, user_courses', courses,
                                                 TriggerUser(old, new))
             /\ UNCHANGED courses
             /\ Answered(op, actor, old)

\* The Library page's button of a listed course:
\* toggleCourseCompletion(userCourse.id, userCourse.completed), and after
\* the update fetchLibraryCourses().
Library_toggleCourseCompletion(s) ==
    /\ seen[s].page = "library"
    /\ \E userCourse \in seen[s].rows :
        LET actor == seen[s].user
            hit == {r \in user_courses :
                        /\ r.id = userCourse.id
                        /\ r.user_id = actor
                        /\ RlsUserCoursesOwn(actor, r)}
        IN  /\ Complete("toggleCourseCompletion", actor, hit, userCourse.completed)
            /\ seen' = [seen EXCEPT ![s].rows = Listed(user_courses', actor)]
            /\ TabFrame

\* The Learn page's button: handleMarkCompleted() with the page's
\* userCourseId and completed, and after the update setCompleted(!completed).
Learn_handleMarkCompleted(s) ==
    /\ seen[s].page = "learn"
    /\ \E userCourse \in seen[s].rows :
        LET actor == seen[s].user
            hit == {r \in user_courses :
                        r.id = userCourse.id /\ RlsUserCoursesOwn(actor, r)}
        IN  /\ Complete("handleMarkCompleted", actor, hit, userCourse.completed)
            /\ seen' = [seen EXCEPT ![s].rows =
                            {[userCourse EXCEPT !.completed = ~userCourse.completed]}]
            /\ TabFrame

\* u2 has uploaded the courses and u1 has added each to the library; no tab
\* shows a page yet.
InitTabs ==
    /\ auth_users = Users
    /\ courses = {NewCourse(c, "u2", "t1") : c \in 1..MaxCourses}
    /\ user_courses = {NewUserCourse(c, "u1", c) : c \in 1..MaxEnrollments}
    /\ profiles = [u \in Users |->
                     SetStats([v \in Users |-> NewProfile(v)], u,
                              StatsOf(user_courses, courses, u))[u]]
    /\ nextId = [c |-> MaxCourses + 1, e |-> MaxEnrollments + 1]
    /\ tx = [s \in Sessions |-> TxIdle]
    /\ races = MaxRaces
    /\ last = NoRequest
    /\ chain = NoChain
    /\ scen = NoScen
    /\ seen = [s \in Sessions |-> NoSeen]
    /\ modal = NoModal
    /\ probe = NoProbe

NextTabs ==
    \E s \in Sessions :
        \/ \E actor \in Users : fetchLibraryCourses(s, actor)
        \/ \E actor \in Users, courseId \in 1..MaxCourses :
                checkLibraryStatus(s, actor, courseId)
        \/ Library_toggleCourseCompletion(s)
        \/ Learn_handleMarkCompleted(s)

SpecTabs == InitTabs /\ [][NextTabs]_vars

\* ------------------------------------------------------------- course forms
\* UploadCourseModal and EditCourseModal on the Dashboard of one signed-in
\* user.  A behaviour works with one of the two forms.  The fields both
\* forms always require (title, description, ...) are filled.

\* The content types the select offers.
ContentTypes == {"video", "pdf", "text"}
\* Two content URLs: the HEAD request of the first is answered with res.ok,
\* the one of the second is not, or fails.
Urls == {"https://ok", "https://gone"}
ResOk(url) == url = "https://ok"
\* What the textarea can hold besides ''.
Texts == {"body"}

\* x || null and x || ''.
OrNull(x) == IF x = "" THEN NULL ELSE x
OrEmpty(x) == IF x = NULL THEN "" ELSE x

\* The content columns both forms send.
Payload(formData) ==
    [content_type |-> formData.content_type,
     content_url |-> OrNull(formData.content_url),
     content_text |-> OrNull(formData.content_text)]

\* A courses row with its content columns.
ContentCourse(rid, u, title, content) ==
    [id |-> rid, uploader_id |-> u, title |-> title,
     content_type |-> content.content_type,
     content_url |-> content.content_url,
     content_text |-> content.content_text]

\* What no form changes.
FormFrame == UNCHANGED <<tx, races, last, chain, scen, auth_users, seen>>

\* A form changed its own state only.
Typed ==
    /\ UNCHANGED <<profiles, courses, user_courses, nextId, probe>>
    /\ FormFrame

\* The content type select of either form:
\* setFormData({ ...formData, content_type: value }).
setContentType(value) ==
    /\ modal.form \in {"upload", "edit"}
    /\ modal' = [modal EXCEPT !.formData.content_type = value]
    /\ Typed

\* The textarea either form shows when content_type is text.
setContentText(value) ==
    /\ modal.form \in {"upload", "edit"}
    /\ modal.formData.content_type = "text"
    /\ modal' = [modal EXCEPT !.formData.content_text = value]
    /\ Typed

\* UploadCourseModal.handleContentUrlChange(url), up to the fetch.
handleContentUrlChange(url) ==
    /\ modal.form = "upload"
    /\ modal.formData.content_type # "text"
    /\ modal' = IF url = ""
                THEN [modal EXCEPT !.formData.content_url = url,
                                   !.contentUrlValid = TRUE]
                ELSE [modal EXCEPT !.formData.content_url = url,
                                   !.contentUrlValidating = TRUE,
                                   !.heads = @ \cup {url}]
    /\ Typed

\* A HEAD request of handleContentUrlChange is answered or fails: then or
\* catch, and finally.
headSettled(url) ==
    /\ url \in modal.heads
    /\ modal' = [modal EXCEPT !.contentUrlValid = ResOk(url),
                              !.contentUrlValidating = FALSE,
                              !.heads = @ \ {url}]
    /\ Typed

\* The submit button of UploadCourseModal is disabled.
UploadDisabled ==
    \/ modal.formData.content_type = ""
    \/ modal.formData.content_type = "text" /\ modal.formData.content_text = ""
    \/ /\ modal.formData.content_type \in {"video", "pdf"}
       /\ \/ modal.formData.content_url = ""
          \/ ~modal.contentUrlValid
          \/ modal.contentUrlValidating

\* handleSubmit of UploadCourseModal returns before the insert.
UploadRefused ==
    \/ modal.formData.content_type = ""
    \/ modal.formData.content_type = "text" /\ modal.formData.content_text = ""
    \/ /\ modal.formData.content_type \in {"video", "pdf"}
       /\ modal.formData.content_url = "" \/ ~modal.contentUrlValid

\* UploadCourseModal.handleSubmit: the insert, the row trigger of courses,
\* and setFormData to the empty form.
UploadCourseModal_handleSubmit ==
    LET row == ContentCourse(nextId.c, modal.user, "t1", Payload(modal.formData))
    IN  /\ modal.form = "upload"
        /\ ~UploadDisabled
        /\ ~UploadRefused
        /\ nextId.c <= MaxCourses
        /\ RlsCoursesInsert(modal.user, row)
        /\ profiles[modal.user] # NoProfile
        /\ courses' = ApplyRow(courses, NoRow, row)
        /\ nextId' = [nextId EXCEPT !.c = @ + 1]
        /\ profiles' = update_profile_stats(profiles, user_courses, courses',
                                            TriggerUploader(NoRow, row))
        /\ probe' = [NoProbe EXCEPT !.op = "UploadCourseModal.handleSubmit",
                                    !.actor = modal.user, !.row = row,
                                    !.hit = "own", !.outcome = "ok"]
        /\ modal' = [modal EXCEPT !.formData = NoFormData]
        /\ UNCHANGED user_courses
        /\ FormFrame

\* Dashboard.handleEditCourse(course) and the effect of EditCourseModal:
\* setFormData from the course.
handleEditCourse(course) ==
    /\ modal.form = "edit"
    /\ course \in courses
    /\ course.uploader_id = modal.user
    /\ modal' = [modal EXCEPT
                    !.course = course.id,
                    !.formData = [title |-> OrEmpty(course.title),
                                  content_type |-> OrEmpty(course.content_type),
                                  content_url |-> OrEmpty(course.content_url),
                                  content_text |-> OrEmpty(course.content_text)]]
    /\ Typed

\* The content URL input of EditCourseModal:
\* setFormData({ ...formData, content_url: e.target.value }).
setContentUrl(value) ==
    /\ modal.form = "edit"
    /\ modal.formData.content_type # "text"
    /\ modal' = [modal EXCEPT !.formData.content_url = value]
    /\ Typed

\* EditCourseModal.handleSubmit: the update .eq('id', course.id), the row
\* trigger of courses, and handleEditSuccess.
EditCourseModal_handleSubmit ==
    LET hit == {r \in courses :
                    r.id = modal.course /\ RlsCoursesOwn(modal.user, r)}
    IN  /\ modal.form = "edit"
        /\ modal.course # 0
        /\ modal.formData.title # ""
        /\ modal.formData.content_type # ""
        /\ hit # {}
        /\ LET old == CHOOSE r \in hit : TRUE
               new == ContentCourse(old.id, old.uploader_id, modal.formData.title,
                                    Payload(modal.formData))
           IN  /\ RlsCoursesOwn(modal.user, new)
               /\ courses' = ApplyRow(courses, old, new)
               /\ profiles' = update_profile_stats(profiles, user_courses, courses',
                                                   TriggerUploader(old, new))
               /\ probe' = [NoProbe EXCEPT !.op = "EditCourseModal.handleSubmit",
                                           !.actor = modal.user, !.row = new,
                                           !.hit = "own", !.outcome = "ok"]
        /\ modal' = [modal EXCEPT !.course = 0]
        /\ UNCHANGED <<user_courses, nextId>>
        /\ FormFrame

\* The signed-in user has uploaded one course, a video or a text, and has
\* the Dashboard open with one of the two forms in use.
InitForms ==
    /\ auth_users = Users
    /\ \E u \in Users, form \in {"upload", "edit"} :
        /\ modal = [NoModal EXCEPT !.form = form, !.user = u]
        /\ \E content \in {[content_type |-> "video", content_url |-> "https://ok",
                            content_text |-> NULL],
                           [content_type |-> "text", content_url |-> NULL,
                            content_text |-> "body"]} :
                courses = {ContentCourse(1, u, "t1", content)}
    /\ user_courses = {}
    /\ profiles = [u \in Users |->
                     SetStats([v \in Users |-> NewProfile(v)], u,
                              StatsOf(user_courses, courses, u))[u]]
    /\ nextId = [c |-> 2, e |-> 1]
    /\ tx = [s \in Sessions |-> TxIdle]
    /\ races = MaxRaces
    /\ last = NoRequest
    /\ chain = NoChain
    /\ scen = NoScen
    /\ seen = [s \in Sessions |-> NoSeen]
    /\ probe = NoProbe

NextForms ==
    \/ \E value \in ContentTypes : setContentType(value)
    \/ \E value \in Texts \cup {""} : setContentText(value)
    \/ \E url \in Urls \cup {""} : handleContentUrlChange(url)
    \/ \E url \in Urls : headSettled(url)
    \/ UploadCourseModal_handleSubmit
    \/ \E course \in courses : handleEditCourse(course)
    \/ \E value \in Urls \cup {""} : setContentUrl(value)
    \/ EditCourseModal_handleSubmit

SpecForms == InitForms /\ [][NextForms]_vars

\* ------------------------------------------------------------- the stats migration
\* The database the base schema created, in use before the stats migration
\* runs: profiles without counters, user_courses with progress.

\* The progress values of the enrollments of the base schema.
Progresses == {0, 100}

\* A profiles row of the base schema.
OldProfile(u) ==
    [user_id |-> u, full_name |-> NULL, avatar_url |-> NULL, role |-> "user",
     updated_at |-> CreatedAt]

\* A user_courses row of the base schema.
OldUserCourse(rid, u, cid, progress) ==
    [id |-> rid, user_id |-> u, course_id |-> cid, progress |-> progress]

\* ALTER TABLE profiles ADD COLUMN completed, enrolled, uploads INTEGER
\* DEFAULT 0.
AddCounters(p) ==
    IF p = NoProfile THEN NoProfile
    ELSE [user_id |-> p.user_id, full_name |-> p.full_name,
          avatar_url |-> p.avatar_url, role |-> p.role, updated_at |-> p.updated_at,
          completed |-> 0, enrolled |-> 0, uploads |-> 0]

\* ALTER TABLE user_courses ADD COLUMN completed BOOLEAN DEFAULT FALSE,
\* completed_at; DROP COLUMN progress.
AddCompleted(r) ==
    [id |-> r.id, user_id |-> r.user_id, course_id |-> r.course_id,
     completed |-> FALSE, completed_at |-> NULL]

\* The whole migration: the column changes, update_profile_stats, and the
\* two row triggers, which fire on later statements only.
migration ==
    /\ probe.op = "none"
    /\ profiles' = [u \in Users |-> AddCounters(profiles[u])]
    /\ user_courses' = {AddCompleted(r) : r \in user_courses}
    /\ probe' = [NoProbe EXCEPT !.op = "migration", !.outcome = "ok"]
    /\ UNCHANGED <<courses, nextId>>
    /\ ApiFrame

\* Any database of the base schema: users with and without a profile, the
\* courses of users with a profile, enrollments of distinct (user, course)
\* pairs.
InitMigration ==
    /\ auth_users = Users
    /\ profiles \in [Users -> {NoProfile} \cup {OldProfile(u) : u \in Users}]
    /\ \A u \in Users : profiles[u] \in {NoProfile, OldProfile(u)}
    /\ \E n \in 0..MaxCourses :
        /\ \E uploader \in [1..n -> Users] :
            /\ \A c \in 1..n : profiles[uploader[c]] # NoProfile
            /\ courses = {NewCourse(c, uploader[c], "t1") : c \in 1..n}
        /\ \E m \in 0..MaxEnrollments :
            /\ \E who \in [1..m -> Users], what \in [1..m -> 1..n],
                  progress \in [1..m -> Progresses] :
                /\ \A i, j \in 1..m : i # j => <<who[i], what[i]>> # <<who[j], what[j]>>
                /\ user_courses =
                        {OldUserCourse(i, who[i], what[i], progress[i]) : i \in 1..m}
            /\ nextId = [c |-> n + 1, e |-> m + 1]
    /\ tx = [s \in Sessions |-> TxIdle]
    /\ races = MaxRaces
    /\ last = NoRequest
    /\ chain = NoChain
    /\ scen = NoScen
    /\ seen = [s \in Sessions |-> NoSeen]
    /\ modal = NoModal
    /\ probe = NoProbe

NextMigration == migration

SpecMigration == InitMigration /\ [][NextMigration]_vars

\* ------------------------------------------------------------- properties
\* C1: in every committed state the three counters of every user that has a
\* profile equal the live counts: enrolled the user's user_courses rows,
\* completed those with completed = true, uploads the courses the user
\* uploaded.
C1_CountersEqualCounts ==
    \A u \in Users :
        profiles[u] # NoProfile =>
            Stats(profiles[u]) = StatsOf(user_courses, courses, u)

\* C2: update_profile_stats is idempotent: on every table state and for
\* every user, a second call right after the first leaves the three counters
\* as the first call left them.
C2_Idempotent ==
    \A u \in Users :
        LET once == update_profile_stats(profiles, user_courses, courses, u)
        IN  update_profile_stats(once, user_courses, courses, u) = once

\* A state in which the first call changes the counters of a profile.
C2_Witness ==
    \E u \in Users :
        /\ profiles[u] # NoProfile
        /\ StatsOf(user_courses, courses, u) # Zero
        /\ update_profile_stats(profiles, user_courses, courses, u) # profiles

\* C3: deletion symmetry: a user adds a course to the library and then
\* at once removes that row; the user's enrolled, completed and uploads
\* counters are back at their values before the add.
C3_DeletionSymmetry ==
    chain.kind = "addRemove" =>
        Stats(profiles[chain.target]) = chain.base

\* C4: toggle round trip: an enrollment that is not completed is marked
\* completed and then at once marked incomplete; the owner's completed
\* counter is back at its value before the first toggle and the row has
\* completed = false and completed_at null.
C4_ToggleRoundTrip ==
    chain.kind = "toggleBack" =>
        /\ profiles[chain.target].completed = chain.base.completed
        /\ \A r \in user_courses :
                r.id = chain.id => ~r.completed /\ r.completed_at = NULL

\* C5: the scenario of a fresh user (counters 0, owner of no row): after
\* enrolling, enrolled = 1 and completed = 0; after marking the enrollment
\* completed, completed = 1 and completed_at is set; after uploading a
\* course, uploads = 1; after deleting the enrollment, enrolled = 0,
\* completed = 0 and uploads = 1.
C5_Scenario ==
    scen.stage > 0 =>
        LET p == profiles[scen.u]
            row == {r \in user_courses : r.id = scen.e}
        IN  /\ scen.stage = 1 => p.enrolled = 1 /\ p.completed = 0
            /\ scen.stage = 2 =>
                    /\ p.completed = 1
                    /\ row # {}
                    /\ \A r \in row : r.completed /\ r.completed_at # NULL
            /\ scen.stage = 3 => p.uploads = 1
            /\ scen.stage = 4 =>
                    p.enrolled = 0 /\ p.completed = 0 /\ p.uploads = 1

\* The scenario has run to its last step.
C5_Witness == scen.stage = 4 /\ profiles[scen.u].uploads = 1

\* C6: order independence: a user without enrollments enrolls in two
\* courses in two transactions; once both have committed, in whichever
\* order, enrolled = 2.
C6_OrderIndependence ==
    chain.kind = "addAdd" => profiles[chain.target].enrolled = 2

\* C7: two transactions that recompute the same user's counters run
\* concurrently; once both have committed, the user's counters equal the
\* live counts over the rows of both.
C7_ConcurrentRecompute ==
    /\ last.outcome = "ok"
    /\ last.overlap
    /\ profiles[last.target] # NoProfile
    => Stats(profiles[last.target]) = StatsOf(user_courses, courses, last.target)

C9_Atomic ==
    [][ /\ \A s \in Sessions :
            tx[s].pc # "open" /\ tx'[s].pc = "open" =>
                UNCHANGED <<profiles, courses, user_courses>>
        /\ \A s \in Sessions :
            tx[s].pc = "open" /\ tx'[s].pc # "open" =>
                LET t == tx[s]
                    before == IF t.tbl = "courses" THEN courses ELSE user_courses
                    after == IF t.tbl = "courses" THEN courses' ELSE user_courses'
                IN  \/ /\ last'.outcome = "ok"
                       /\ t.old # NoRow => t.old \in before
                       /\ after = (before \ {t.old}) \cup ({t.new} \ {NoRow})
                       /\ profiles[t.target] # NoProfile =>
                              Stats(profiles'[t.target]) = t.stats
                    \/ /\ last'.outcome = "rollback"
                       /\ UNCHANGED <<profiles, courses, user_courses>>
        /\ <<profiles, courses, user_courses>>' # <<profiles, courses, user_courses>> =>
                \E s \in Sessions : tx[s].pc = "open" /\ tx'[s].pc # "open"
      ]_vars

\* A commit has published a row change and new counters while another
\* transaction is in flight.
C9_Witness ==
    /\ last.outcome = "ok"
    /\ last.changed
    /\ last.touched # {}
    /\ \E s \in Sessions : tx[s].pc = "open"

\* C10: a transaction whose trigger recomputes a user without profile
\* commits its row change; the recompute creates no profile and changes no
\* other row of any table.
C10_MissingProfileNoOp ==
    [][ \A s \in Sessions :
            /\ tx[s].pc = "open"
            /\ profiles[tx[s].target] = NoProfile
            /\ tx'[s].pc # "open"
            /\ last'.outcome = "ok"
            => LET t == tx[s]
               IN  /\ profiles' = profiles
                   /\ user_courses' =
                        IF t.tbl = "user_courses"
                        THEN (user_courses \ {t.old}) \cup ({t.new} \ {NoRow})
                        ELSE user_courses
                   /\ courses' =
                        IF t.tbl = "courses"
                        THEN (courses \ {t.old}) \cup ({t.new} \ {NoRow})
                        ELSE courses
      ]_vars

\* A user without profile has committed a row change.
C10_Witness ==
    /\ last.outcome = "ok"
    /\ last.rows = 1
    /\ last.changed
    /\ last.target \in Users
    /\ profiles[last.target] = NoProfile

\* C11: at most one user_courses row exists per (user, course) pair; an
\* insert for a pair that has a row is rejected before any trigger runs and
\* leaves user_courses and every counter unchanged.
C11_UniquePair ==
    /\ \A r1 \in user_courses, r2 \in user_courses :
            r1.user_id = r2.user_id /\ r1.course_id = r2.course_id => r1 = r2
    /\ last.op = "addToLibrary" /\ last.outcome = "duplicate" =>
            /\ last.rows = 0
            /\ last.target = NoUser
            /\ ~last.changed
            /\ last.touched = {}
    /\ \A s \in Sessions :
            tx[s].pc = "open" /\ tx[s].op = "addToLibrary" =>
                Duplicate(user_courses, tx[s].new.user_id, tx[s].new.course_id) = {}

\* An insert for a pair that has a row has been rejected.
C11_Witness ==
    /\ last.op = "addToLibrary"
    /\ last.outcome = "duplicate"
    /\ user_courses # {}

\* C18: through the client operations every user_courses row has
\* completed_at set exactly when completed is true.
C18_CompletedAt ==
    \A r \in user_courses :
        /\ r.completed => r.completed_at # NULL
        /\ ~r.completed => r.completed_at = NULL

\* A row has been marked completed and marked incomplete again.
C18_Witness ==
    /\ chain.kind = "toggleBack"
    /\ \E r \in user_courses : r.id = chain.id /\ ~r.completed

C12_Role(R) ==
    IF R \in Users /\ profiles[R] # NoProfile THEN profiles[R].role ELSE "none"

\* C12: a reader R, possibly anonymous, can read a course C if and only if
\* C is approved and public, or C is approved and premium and R's profile
\* role is premium or admin, or R is C's uploader; a private or unapproved
\* course is readable by nobody but its uploader.
C12_CourseVisibility ==
    probe.op = "selectCourse" =>
        LET C == probe.row
            R == probe.actor
            approved == C.is_approved = "true"
        IN  /\ probe.visible <=>
                \/ approved /\ C.access_type = "public"
                \/ approved /\ C.access_type = "premium"
                            /\ C12_Role(R) \in {"premium", "admin"}
                \/ R = C.uploader_id
            /\ (C.access_type = "private" \/ ~approved) /\ probe.visible =>
                    R = C.uploader_id

\* A premium reader that is not the uploader has read an approved premium
\* course.
C12_Witness ==
    /\ probe.op = "selectCourse"
    /\ probe.visible
    /\ probe.row.access_type = "premium"
    /\ probe.actor # probe.row.uploader_id
    /\ C12_Role(probe.actor) = "premium"

\* C13: an actor reads, updates or deletes a user_courses row only if the
\* row's user_id is the actor, and inserts one only with user_id the actor;
\* any other attempt changes no row.
C13_EnrollmentsOwnerOnly ==
    [][ LET A == probe'.actor
        IN  /\ \A r \in user_courses' \ user_courses : r.user_id = A
            /\ \A r \in user_courses \ user_courses' : r.user_id = A
            /\ probe'.op = "apiSelectUserCourses" =>
                    probe'.rows = {r \in user_courses : r.user_id = A}
            /\ /\ probe'.op \in {"apiInsertUserCourse", "apiUpdateUserCourse",
                                 "apiDeleteUserCourse"}
               /\ probe'.hit = "other"
               => /\ probe'.outcome # "ok"
                  /\ UNCHANGED <<profiles, courses, user_courses>>
      ]_vars

\* A signed-in user has tried to update another user's enrollment.
C13_Witness ==
    /\ probe.op = "apiUpdateUserCourse"
    /\ probe.actor \in Users
    /\ probe.hit = "other"
    /\ probe.outcome = "denied"
    /\ \E r \in user_courses : r.user_id # probe.actor

C16_OneProfilePerUser ==
    [][ /\ \A u \in Users :
                /\ u \in auth_users' <=> profiles'[u] # NoProfile
                /\ profiles'[u] # NoProfile => profiles'[u].user_id = u
                /\ u \in auth_users' \ auth_users => profiles'[u] = NewProfile(u)
        /\ \A u \in Users :
                /\ probe'.op = "apiInsertProfile"
                /\ probe'.actor = u
                /\ probe'.hit = "own"
                /\ profiles[u] # NoProfile
                => /\ probe'.outcome = "error"
                   /\ profiles' = profiles
      ]_vars

\* Both users have signed up and one has tried to insert a second profile
\* for themselves.
C16_Witness ==
    /\ auth_users = Users
    /\ probe.op = "apiInsertProfile"
    /\ probe.hit = "own"
    /\ probe.outcome = "error"

\* C17: in every reachable state each of the three counters of every
\* profile is an integer >= 0.
C17_CountersNonNegative ==
    \A u \in Users :
        profiles[u] # NoProfile =>
            /\ profiles[u].completed >= 0
            /\ profiles[u].enrolled >= 0
            /\ profiles[u].uploads >= 0

\* C20: the profile edit changes only full_name, avatar_url and updated_at
\* of the actor's profile: it leaves the three counters and the role of
\* every profile, and every other row, as they were.
C20_ProfileEditFrame ==
    [][ probe'.op = "updateProfile" =>
            /\ UNCHANGED <<courses, user_courses, auth_users>>
            /\ \A u \in Users :
                    /\ u # probe'.actor => profiles'[u] = profiles[u]
                    /\ profiles[u] # NoProfile =>
                            /\ profiles'[u] # NoProfile
                            /\ Stats(profiles'[u]) = Stats(profiles[u])
                            /\ profiles'[u].role = profiles[u].role
                            /\ profiles'[u].user_id = profiles[u].user_id
      ]_vars

\* A user who has uploaded a course has edited their profile.
C20_Witness ==
    /\ probe.op = "updateProfile"
    /\ probe.outcome = "ok"
    /\ profiles[probe.actor].full_name \in FullNames
    /\ profiles[probe.actor].updated_at = Timestamp
    /\ profiles[probe.actor].uploads > 0

\* The user a row trigger has to recompute for the row change of this step:
\* the user of the row as it is after the step, of the removed row when the
\* step deleted one.
C21_Owner ==
    LET ins == user_courses' \ user_courses
        del == user_courses \ user_courses'
        insC == courses' \ courses
        delC == courses \ courses'
    IN  IF ins # {} THEN (CHOOSE r \in ins : TRUE).user_id
        ELSE IF del # {} THEN (CHOOSE r \in del : TRUE).user_id
        ELSE IF insC # {} THEN (CHOOSE c \in insC : TRUE).uploader_id
        ELSE (CHOOSE c \in delC : TRUE).uploader_id

\* C21: every row-level insert or update on user_courses runs
\* update_profile_stats exactly once, after the row change, for the NEW
\* row's user_id only, every delete once for the OLD row's user_id, and
\* likewise on courses with uploader_id; an update that moves an enrollment
\* from A to B recomputes B's counters and not A's.
C21_TriggerBindings ==
    [][ user_courses' # user_courses \/ courses' # courses =>
            /\ probe'.calls = <<C21_Owner>>
            /\ profiles[C21_Owner] # NoProfile =>
                    Stats(profiles'[C21_Owner]) =
                        StatsOf(user_courses', courses', C21_Owner)
            /\ \A u \in Users : u # C21_Owner => profiles'[u] = profiles[u]
      ]_vars

\* An update has moved an enrollment from A to B and has left A's counters
\* as they were.
C21_Witness ==
    /\ probe.op = "sqlUpdateUserCourse"
    /\ probe.outcome = "ok"
    /\ \E r \in user_courses :
            /\ r.id = probe.row.id
            /\ r.user_id # probe.row.user_id
            /\ probe.calls = <<r.user_id>>
            /\ Stats(profiles[probe.row.user_id]) #
                    StatsOf(user_courses, courses, probe.row.user_id)

\* The session whose handleDeleteCourse ends in this step, and its course.
C22_Ends(s) ==
    /\ \/ tx[s].pc = "del2"
       \/ tx[s].pc = "open" /\ tx[s].op = "deleteCourse"
    /\ tx'[s].pc = "idle"
    /\ last'.outcome # "rollback"

C22_Course(s) == IF tx[s].pc = "del2" THEN tx[s].cid ELSE tx[s].old.id

\* C22: once handleDeleteCourse of the uploader has completed, neither the
\* course nor any enrollment of any user that references it exists.
C22_DeleteCourseCascades ==
    [][ \A s \in Sessions :
            C22_Ends(s) =>
                /\ ~(\E c \in courses' : c.id = C22_Course(s))
                /\ ~(\E r \in user_courses' : r.course_id = C22_Course(s))
      ]_vars

\* C23: a completion toggle writes neither user_id nor course_id of the
\* enrollment and the course edit does not write uploader_id; neither
\* changes the uploads counter or the enrolled counter of any user.
C23_OwnerFrame ==
    [][ \A s \in Sessions :
            /\ tx[s].pc = "open"
            /\ tx[s].op \in {"toggleCourseCompletion", "handleMarkCompleted",
                              "editCourse"}
            /\ tx'[s].pc = "idle"
            /\ last'.outcome = "ok"
            => /\ tx[s].tbl = "user_courses" =>
                    /\ tx[s].new.user_id = tx[s].old.user_id
                    /\ tx[s].new.course_id = tx[s].old.course_id
               /\ tx[s].tbl = "courses" =>
                    tx[s].new.uploader_id = tx[s].old.uploader_id
               /\ \A u \in Users :
                    profiles[u] # NoProfile =>
                        /\ profiles'[u].uploads = profiles[u].uploads
                        /\ profiles'[u].enrolled = profiles[u].enrolled
      ]_vars

\* C26: every user_courses row refers to an existing courses row, and a
\* course is deleted only when no user_courses row of any user refers to it.
C26_ReferentialIntegrity ==
    /\ \A r \in user_courses : \E c \in courses : c.id = r.course_id
    /\ \A s \in Sessions :
            tx[s].pc = "open" /\ tx[s].op = "deleteCourse" =>
                ~(\E r \in user_courses : r.course_id = tx[s].old.id)

\* The delete of a course that another user is enrolled in has been
\* rejected.
C26_Witness ==
    /\ last.op = "deleteCourse"
    /\ last.outcome = "error"
    /\ \E r \in user_courses, c \in courses :
            r.course_id = c.id /\ r.user_id # c.uploader_id

\* C27: whenever handleDeleteCourse ends with the course row still
\* present, the call has removed no enrollment row (and so has changed no
\* counter).
C27_DeleteAllOrNothing ==
    [][ \A s \in Sessions :
            /\ tx[s].pc = "del2"
            /\ tx'[s].pc = "idle"
            /\ \E c \in courses' : c.id = tx[s].cid
            => tx[s].old = NoRow
      ]_vars

\* Dashboard: completionPercentage of the counters of a profile.  With
\* enrolled > 0, round(completed / enrolled * 100) is within 0..100 exactly
\* when 0 <= completed <= enrolled.
C25_RateInRange(p) ==
    p.enrolled > 0 => 0 <= p.completed /\ p.completed <= p.enrolled

\* C25: in every reachable state completed <= enrolled for every profile,
\* so that the completion rate the Dashboard shows is within 0..100.
C25_CompletedAtMostEnrolled ==
    \A u \in Users :
        profiles[u] # NoProfile =>
            /\ profiles[u].completed <= profiles[u].enrolled
            /\ C25_RateInRange(profiles[u])


\* C28: a completion toggle that reaches the enrollment leaves its stored
\* completed flag the negation of the value stored just before the call,
\* whatever another tab of the same user did since this tab last read it.
C28_ToggleFlipsStored ==
    [][ /\ probe'.op \in {"toggleCourseCompletion", "handleMarkCompleted"}
        /\ probe'.hit = "own"
        => \E r \in user_courses' :
                /\ r.id = probe'.row.id
                /\ r.completed = ~probe'.row.completed
      ]_vars


\* The content columns pair with the content type.
C24_Paired(row) ==
    /\ row.content_type \in {"video", "pdf"} => row.content_url # NULL
    /\ row.content_type = "text" => row.content_text # NULL
    /\ (row.content_url # NULL) # (row.content_text # NULL)

\* C24: every course row written by the submit handler of UploadCourseModal
\* or EditCourseModal has a content_url when its content_type is video or
\* pdf, a content_text when it is text, and exactly one of the two.
C24_ContentPairing ==
    probe.op \in {"UploadCourseModal.handleSubmit", "EditCourseModal.handleSubmit"}
        => C24_Paired(probe.row)

\* The video or pdf course UploadCourseModal just submitted has a URL whose
\* own HEAD request was answered with res.ok.
C29_SubmittedUrlChecked ==
    /\ probe.op = "UploadCourseModal.handleSubmit"
    /\ probe.row.content_type \in {"video", "pdf"}
    => ResOk(probe.row.content_url)

\* C29: in UploadCourseModal, when no HEAD request is unanswered and
\* contentUrlValidating is false, contentUrlValid is the outcome of the
\* check of the URL in the form, and true for the empty URL, in whatever
\* order the requests were answered; so no video or pdf course is submitted
\* with a URL whose own check failed.
C29_ValidReflectsCurrentUrl ==
    /\ /\ modal.form = "upload"
       /\ modal.heads = {}
       /\ ~modal.contentUrlValidating
       => modal.contentUrlValid =
            (modal.formData.content_url = "" \/ ResOk(modal.formData.content_url))
    /\ C29_SubmittedUrlChecked


\* C30: right after the stats migration, before any other statement, the
\* three counters of every profile equal the counts of the enrollments and
\* courses that exist.
C30_CountersAfterMigration ==
    probe.op = "migration" =>
        \A u \in Users :
            profiles[u] # NoProfile =>
                Stats(profiles[u]) = StatsOf(user_courses, courses, u)

====
